---- MODULE Spec2Model ----
(***************************************************************************)
(* apk-file: search Alpine package contents from the command line.         *)
(* A model of cmd/apk-file/main.go: flag validation (p.Before), the        *)
(* program action (p.Action: pattern split, query build, fetch, extract,   *)
(* export) and the helpers getFileAndPath, getFilesInfo, tabularResults    *)
(* and stringInSlice.                                                      *)
(*                                                                         *)
(* Go strings that flow through string functions are sequences of          *)
(* one-character strings; Str turns such a sequence into a TLA+ string.    *)
(***************************************************************************)
EXTENDS Naturals, Sequences, FiniteSets, TLC

VARIABLES
    pc,            \* position of the run
    wildcard, filterType, branch, arch, repo, outputFormat, stdin,  \* flags
    args,          \* positional arguments left after flag parsing
    input,         \* the local `input` of p.Action
    f, p,          \* file and path patterns returned by getFileAndPath
    uri,           \* the request URI built in p.Action
    fetched,       \* whether http.Get was called
    doc,           \* the parsed document handed to getFilesInfo
    files,         \* the []fileInfo returned by getFilesInfo
    warnings,      \* logrus.Warn calls made by getFilesInfo: <<row, column>>
    result,        \* the *tablib.Exportable tabularResults returned
    err,           \* the error p.Before or p.Action returned, Nil for none
    fmtErr,        \* the err the switch of tabularResults left behind
    out,           \* what the run printed on standard output
    exit           \* how the run ended: "running", "ok", "error", "fatal"

vars == <<pc, wildcard, filterType, branch, arch, repo, outputFormat, stdin,
          args, input, f, p, uri, fetched, doc, files, warnings, result, err,
          fmtErr, out, exit>>

----------------------------------------------------------------------------
(* Bounds of the model.                                                    *)

\* longest input string enumerated for getFileAndPath
MaxLen == 5
\* most rows of a result table enumerated for getFilesInfo
MaxRows == 3
\* most td cells of a row enumerated for getFilesInfo
MaxCells == 6

----------------------------------------------------------------------------
(* Strings.                                                                *)

RECURSIVE Str(_)
Str(s) == IF s = <<>> THEN "" ELSE Head(s) \o Str(Tail(s))

\* all sequences over A of length at most n
RECURSIVE SeqsUpTo(_, _)
SeqsUpTo(A, n) ==
    IF n = 0 THEN {<<>>}
    ELSE LET S == SeqsUpTo(A, n - 1)
         IN  S \cup {Append(s, a) : s \in {t \in S : Len(t) = n - 1}, a \in A}

HasPrefix(s, prefix) ==
    /\ Len(s) >= Len(prefix)
    /\ SubSeq(s, 1, Len(prefix)) = prefix

HasSuffix(s, suffix) ==
    /\ Len(s) >= Len(suffix)
    /\ SubSeq(s, Len(s) - Len(suffix) + 1, Len(s)) = suffix

\* strings.TrimPrefix: s without the leading prefix, once; s itself otherwise
TrimPrefix(s, prefix) ==
    IF HasPrefix(s, prefix) THEN SubSeq(s, Len(prefix) + 1, Len(s)) ELSE s

\* strings.TrimSuffix
TrimSuffix(s, suffix) ==
    IF HasSuffix(s, suffix) THEN SubSeq(s, 1, Len(s) - Len(suffix)) ELSE s

----------------------------------------------------------------------------
(* Package path of the Go standard library, as getFileAndPath uses it.     *)

\* index of the last "/" of s, 0 when there is none
LastSlash(s) ==
    LET I == {i \in 1..Len(s) : s[i] = "/"}
    IN  IF I = {} THEN 0 ELSE CHOOSE i \in I : \A j \in I : j <= i

\* the elements of s between slashes, empty ones included
RECURSIVE SplitSlash(_)
SplitSlash(s) ==
    LET I == {i \in 1..Len(s) : s[i] = "/"}
    IN  IF I = {} THEN <<s>>
        ELSE LET i == CHOOSE k \in I : \A j \in I : k <= j
             IN  <<SubSeq(s, 1, i - 1)>> \o SplitSlash(SubSeq(s, i + 1, Len(s)))

RECURSIVE JoinSlash(_)
JoinSlash(elems) ==
    IF elems = <<>> THEN <<>>
    ELSE IF Len(elems) = 1 THEN elems[1]
    ELSE elems[1] \o <<"/">> \o JoinSlash(Tail(elems))

\* path.Clean: collapse slashes, drop "." elements, resolve ".." lexically
RECURSIVE CleanElems(_, _, _)
CleanElems(elems, stack, rooted) ==
    IF elems = <<>> THEN stack
    ELSE LET e == Head(elems)
             next ==
                 IF e = <<>> \/ e = <<".">> THEN stack
                 ELSE IF e = <<".", ".">> THEN
                     IF stack # <<>> /\ stack[Len(stack)] # <<".", ".">>
                     THEN SubSeq(stack, 1, Len(stack) - 1)
                     ELSE IF rooted THEN stack
                     ELSE Append(stack, e)
                 ELSE Append(stack, e)
         IN  CleanElems(Tail(elems), next, rooted)

Clean(s) ==
    IF s = <<>> THEN <<".">>
    ELSE LET rooted == s[1] = "/"
             body   == JoinSlash(CleanElems(SplitSlash(s), <<>>, rooted))
             res    == IF rooted THEN <<"/">> \o body ELSE body
         IN  IF res = <<>> THEN <<".">> ELSE res

\* path.Dir: everything up to the last slash, cleaned
Dir(s) == Clean(SubSeq(s, 1, LastSlash(s)))

\* path.Base: the last element, trailing slashes removed first
RECURSIVE StripSlashes(_)
StripSlashes(s) ==
    IF s # <<>> /\ s[Len(s)] = "/" THEN StripSlashes(SubSeq(s, 1, Len(s) - 1))
    ELSE s

Base(s) ==
    IF s = <<>> THEN <<".">>
    ELSE LET t == StripSlashes(s)
             u == SubSeq(t, LastSlash(t) + 1, Len(t))
         IN  IF u = <<>> THEN <<"/">> ELSE u

----------------------------------------------------------------------------
(* getFileAndPath                                                          *)

getFileAndPathDotDir(arg) ==
    LET file == <<"*">> \o Base(arg) \o <<"*">>
        dir  == Dir(arg)
    IN  IF dir # <<>>
        THEN [file |-> TrimPrefix(file, <<"*">>), dir |-> <<"*">> \o dir]
        ELSE [file |-> file, dir |-> <<>>]

getFileAndPathNoTrim(arg) ==
    LET file == <<"*">> \o Base(arg) \o <<"*">>
        dir  == Dir(arg)
    IN  IF dir # <<>> /\ dir # <<".">>
        THEN [file |-> file, dir |-> <<"*">> \o dir]
        ELSE [file |-> file, dir |-> <<>>]

getFileAndPathNoBase(arg) ==
    LET file == <<"*">> \o arg \o <<"*">>
        dir  == Dir(arg)
    IN  IF dir # <<>> /\ dir # <<".">>
        THEN [file |-> TrimPrefix(file, <<"*">>), dir |-> <<"*">> \o dir]
        ELSE [file |-> file, dir |-> <<>>]

getFileAndPath(arg) ==
    LET file == <<"*">> \o Base(arg) \o <<"*">>
        dir  == Dir(arg)
    IN  IF dir # <<>> /\ dir # <<".">>
        THEN [file |-> TrimPrefix(file, <<"*">>), dir |-> <<"*">> \o dir]
        ELSE [file |-> file, dir |-> <<>>]

----------------------------------------------------------------------------
(* Program constants and flag enumerations (main.go, var block).           *)

alpineContentsSearchURI == "https://pkgs.alpinelinux.org/contents"

validWildcards == << <<"*">>, <<"?">> >>
validFilterTypes == <<"file", "path", "package">>
validOutputFormats ==
    <<"markdown", "csv", "yaml", "json", "xlsx", "xml", "tsv", "mysql",
      "postgres", "html", "ascii">>
validArches ==
    << <<"x","8","6">>, <<"x","8","6","_","6","4">>, <<"a","r","m","h","f">>,
       <<"a","a","r","c","h","6","4">>, <<"p","p","c","6","4","l","e">>,
       <<"s","3","9","0","x">> >>
validRepos ==
    << <<"m","a","i","n">>, <<"c","o","m","m","u","n","i","t","y">>,
       <<"t","e","s","t","i","n","g">> >>
validBranches ==
    << <<"e","d","g","e">>, <<"v","3",".","8">>, <<"v","3",".","7">>,
       <<"v","3",".","6">>, <<"v","3",".","5">>, <<"v","3",".","4">>,
       <<"v","3",".","3">> >>

\* default of the -output-basename flag
outputBasename == "results"

\* a nil error
Nil == "<nil>"

\* a nil *tablib.Exportable
NilResult == [kind |-> "nil"]

stringInSlice(a, list) == \E i \in 1..Len(list) : list[i] = a

\* strings.Join(list, ", ") of a list of character sequences, as a string
RECURSIVE JoinComma(_)
JoinComma(list) ==
    IF list = <<>> THEN ""
    ELSE IF Len(list) = 1 THEN Str(list[1])
    ELSE Str(list[1]) \o ", " \o JoinComma(Tail(list))

\* strings.Join(list, ", ") of a list of strings
RECURSIVE JoinCommaS(_)
JoinCommaS(list) ==
    IF list = <<>> THEN ""
    ELSE IF Len(list) = 1 THEN list[1]
    ELSE list[1] \o ", " \o JoinCommaS(Tail(list))

----------------------------------------------------------------------------
(* p.Before: flag validation.  The result is the error returned, Nil when  *)
(* every flag passes.                                                      *)

BeforeNoBranch(w, ft, b, a, r) ==
    IF w # <<>> /\ ~stringInSlice(w, validWildcards)
    THEN Str(w) \o " is not a valid pattern type allowed: " \o JoinComma(validWildcards)
    ELSE IF ft # "" /\ ~stringInSlice(ft, validFilterTypes)
    THEN ft \o " is not a valid pattern type allowed: " \o JoinCommaS(validFilterTypes)
    ELSE IF a # <<>> /\ ~stringInSlice(a, validArches)
    THEN Str(a) \o " is not a valid arch, allowed: " \o JoinComma(validArches)
    ELSE IF r # <<>> /\ ~stringInSlice(r, validRepos)
    THEN Str(r) \o " is not a valid repo, allowed: " \o JoinComma(validRepos)
    ELSE Nil

Before(w, ft, b, a, r) ==
    IF w # <<>> /\ ~stringInSlice(w, validWildcards)
    THEN Str(w) \o " is not a valid pattern type allowed: " \o JoinComma(validWildcards)
    ELSE IF ft # "" /\ ~stringInSlice(ft, validFilterTypes)
    THEN ft \o " is not a valid pattern type allowed: " \o JoinCommaS(validFilterTypes)
    ELSE IF b # <<>> /\ ~stringInSlice(b, validBranches)
    THEN Str(b) \o " is not a valid version, allowed: " \o JoinComma(validBranches)
    ELSE IF a # <<>> /\ ~stringInSlice(a, validArches)
    THEN Str(a) \o " is not a valid arch, allowed: " \o JoinComma(validArches)
    ELSE IF r # <<>> /\ ~stringInSlice(r, validRepos)
    THEN Str(r) \o " is not a valid repo, allowed: " \o JoinComma(validRepos)
    ELSE Nil

----------------------------------------------------------------------------
(* url.Values.Encode, as p.Action uses it to build the request URI.        *)

Letters ==
    <<"a","b","c","d","e","f","g","h","i","j","k","l","m",
      "n","o","p","q","r","s","t","u","v","w","x","y","z">>
Digits == <<"0","1","2","3","4","5","6","7","8","9">>

Range(s) == {s[i] : i \in 1..Len(s)}

\* characters url.QueryEscape leaves alone
Unreserved == Range(Letters) \cup Range(Digits) \cup {"-", "_", ".", "~"}

\* the percent-encoding of the other characters the model's inputs hold
EscapeChar(c) ==
    IF c \in Unreserved THEN <<c>>
    ELSE CASE c = " "  -> <<"+">>
           [] c = "*"  -> <<"%", "2", "A">>
           [] c = "/"  -> <<"%", "2", "F">>
           [] c = "?"  -> <<"%", "3", "F">>
           [] c = "\n" -> <<"%", "0", "A">>

RECURSIVE QueryEscape(_)
QueryEscape(s) ==
    IF s = <<>> THEN <<>> ELSE EscapeChar(Head(s)) \o QueryEscape(Tail(s))

\* byte order of the lower-case letters, the only characters of the keys
Ord(c) == CHOOSE i \in 1..Len(Letters) : Letters[i] = c

\* a < b as Go compares strings
RECURSIVE Less(_, _)
Less(a, b) ==
    IF b = <<>> THEN FALSE
    ELSE IF a = <<>> THEN TRUE
    ELSE IF Head(a) # Head(b) THEN Ord(Head(a)) < Ord(Head(b))
    ELSE Less(Tail(a), Tail(b))

\* sort.Strings of the collected keys
RECURSIVE SortKeys(_)
SortKeys(K) ==
    IF K = {} THEN <<>>
    ELSE LET m == CHOOSE k \in K : \A o \in K \ {k} : Less(k, o)
         IN  <<m>> \o SortKeys(K \ {m})

kFile   == <<"f","i","l","e">>
kPath   == <<"p","a","t","h">>
kBranch == <<"b","r","a","n","c","h">>
kRepo   == <<"r","e","p","o">>
kArch   == <<"a","r","c","h">>

\* the url.Values literal of p.Action: key -> its single value
Values(file, dir, b, r, a) ==
    [k \in {kFile, kPath, kBranch, kRepo, kArch} |->
        IF k = kFile THEN file
        ELSE IF k = kPath THEN dir
        ELSE IF k = kBranch THEN b
        ELSE IF k = kRepo THEN r
        ELSE a]

RECURSIVE EncodeKeys(_, _)
EncodeKeys(v, keys) ==
    IF keys = <<>> THEN <<>>
    ELSE LET k    == Head(keys)
             pair == QueryEscape(k) \o <<"=">> \o QueryEscape(v[k])
             rest == EncodeKeys(v, Tail(keys))
         IN  IF rest = <<>> THEN pair ELSE pair \o <<"&">> \o rest

EncodeUnsorted(v, iter) == EncodeKeys(v, iter)

\* Values.Encode: the keys are collected by ranging over the map (iter is
\* the order that range happened to take), sorted, and written as
\* "key=value" pairs joined by "&"
Encode(v, iter) == EncodeKeys(v, SortKeys(Range(iter)))

----------------------------------------------------------------------------
(* getFilesInfo.  A document is the rows the selector ".pure-table tr"     *)
(* can see, grouped by parent element: a sequence of row groups (the       *)
(* table's tbody, or its thead and tbody, ...), each a sequence of rows,   *)
(* each row the texts of its td cells in order (th cells are not td        *)
(* cells: a header row of th cells is the empty row).                      *)

emptyFileInfo == [path |-> "", pkg |-> "", branch |-> "", repo |-> "", arch |-> ""]

\* the inner rows.Each: cell i (counted from 0 in the code) sets field i
RECURSIVE setCells(_, _, _)
setCells(fi, cells, i) ==
    IF i > Len(cells) THEN fi
    ELSE LET g == IF i = 1 THEN [fi EXCEPT !.path = cells[i]]
                  ELSE IF i = 2 THEN [fi EXCEPT !.pkg = cells[i]]
                  ELSE IF i = 3 THEN [fi EXCEPT !.branch = cells[i]]
                  ELSE IF i = 4 THEN [fi EXCEPT !.repo = cells[i]]
                  ELSE IF i = 5 THEN [fi EXCEPT !.arch = cells[i]]
                  ELSE fi
         IN  setCells(g, cells, i + 1)

rowInfo(cells) == setCells(emptyFileInfo, cells, 1)

\* "tr:not(:first-child)": the rows of a group that are not its first child
notFirstChild(group) == SubSeq(group, 2, Len(group))

\* the selection in document order
RECURSIVE selectRows(_)
selectRows(d) ==
    IF d = <<>> THEN <<>> ELSE notFirstChild(Head(d)) \o selectRows(Tail(d))

getFilesInfo(d) ==
    LET rows == selectRows(d)
    IN  [j \in 1..Len(rows) |-> rowInfo(rows[j])]

\* the logrus.Warn calls: one per cell beyond index 4, <<row j, column i>>
\* with j and i counted from 0 as in the code
RECURSIVE rowWarnings(_, _, _)
rowWarnings(j, cells, i) ==
    IF i > Len(cells) THEN <<>>
    ELSE (IF i > 5 THEN << <<j - 1, i - 1>> >> ELSE <<>>)
         \o rowWarnings(j, cells, i + 1)

RECURSIVE allWarnings(_, _)
allWarnings(rows, j) ==
    IF j > Len(rows) THEN <<>>
    ELSE rowWarnings(j, rows[j], 1) \o allWarnings(rows, j + 1)

getFilesWarnings(d) == allWarnings(selectRows(d), 1)

----------------------------------------------------------------------------
(* tabularResults.  The renderers belong to go-tablib; a rendering is      *)
(* the pair of the renderer that made it and the dataset it was given.     *)

headers == <<"file", "package", "branch", "repository", "architecture">>

\* tablib.NewDataset(headers) followed by AppendValues for every file
newDataset(fs) ==
    [headers |-> headers,
     rows |-> [i \in 1..Len(fs) |->
                 <<fs[i].path, fs[i].pkg, fs[i].branch, fs[i].repo, fs[i].arch>>]]

\* ds.Filter("luxury"): the rows tagged "luxury"; AppendValues tags none
filterLuxury(ds) == [headers |-> ds.headers, rows |-> <<>>]

exportable(kind, ds) == [kind |-> kind, ds |-> ds]
exportableSQL(kind, table, ds) == [kind |-> kind, table |-> table, ds |-> ds]

println(x) == [line |-> x]

\* the renderers of the switch that can return an error
fallible == {"csv", "tsv", "yaml", "json", "xlsx", "xml", "html"}

\* the switch on outputFormat: <<result, err>>.  serr: the renderer failed
switchFormat(format, ds, serr) ==
    LET render(kind) ==
            IF serr THEN <<NilResult, kind \o ": render failed">>
            ELSE <<exportable(kind, ds), Nil>>
    IN  IF format = "csv" THEN render("csv")
        ELSE IF format = "tsv" THEN render("tsv")
        ELSE IF format = "yaml" THEN render("yaml")
        ELSE IF format = "json" THEN render("json")
        ELSE IF format = "xlsx" THEN render("xlsx")
        ELSE IF format = "xml" THEN render("xml")
        ELSE IF format = "mysql" THEN <<exportableSQL("mysql", outputBasename, ds), Nil>>
        ELSE IF format = "postgres" THEN <<exportableSQL("postgres", outputBasename, ds), Nil>>
        ELSE IF format = "html" THEN render("xlsx")
        ELSE IF format = "ascii" THEN <<NilResult, Nil>>
        ELSE <<exportable("grid", ds), Nil>>

\* the whole function: [result, err, fmtErr, out].  ferr: the CSV export of
\* the filtered dataset failed
tabularResults(format, ds, serr, ferr) ==
    LET sw      == switchFormat(format, ds, serr)
        printed == <<println("results"), println(sw[1])>>
    IN  IF ferr
        THEN [result |-> NilResult, err |-> "filtered csv: render failed",
              fmtErr |-> sw[2], out |-> printed]
        ELSE [result |-> sw[1], err |-> Nil, fmtErr |-> sw[2],
              out |-> printed \o
                      <<println("packages"),
                        println(exportable("csv", filterLuxury(ds)))>>]

----------------------------------------------------------------------------
(* Inputs of the model.                                                    *)

v38    == <<"v","3",".","8">>
x8664  == <<"x","8","6","_","6","4">>
main   == <<"m","a","i","n">>
libFoo == <<"l","i","b","/","f","o","o">>
libssl == <<"l","i","b","s","s","l",".","s","o">>

\* values the command line can give each flag: empty, valid, invalid
WildcardFlags == {<<>>, <<"*">>, <<"x">>}
FilterFlags   == {"", "file", "bogus"}
BranchFlags   == {<<>>, v38, <<"v","9",".","9">>}
ArchFlags     == {<<>>, x8664, <<"m","i","p","s">>}
RepoFlags     == {<<>>, main, <<"e","x","t","r","a">>}
FormatFlags   == Range(validOutputFormats) \cup {"bogus"}

\* positional arguments and piped texts of the whole-run specification
SampleInputs == {<<>>, libFoo, libssl, <<"a"," ","b">>}
ArgLists     == {<<>>} \cup {<<t>> : t \in SampleInputs}
StdinTexts   == SampleInputs \cup {t \o <<"\n">> : t \in SampleInputs}

\* a row of k td cells; rows of the same tag and length are equal
Row(tag, k) == [i \in 1..k |-> tag \o ToString(i)]

\* documents of the whole-run specification
SampleDocs ==
    { <<>>,
      << <<Row("h", 0)>> >>,
      << <<Row("h", 0), Row("x", 5), Row("y", 5), Row("x", 5)>> >>,
      << <<Row("h", 0)>>, <<Row("x", 5), Row("y", 5)>> >>,
      << <<Row("h", 5), Row("x", 3), Row("y", 6)>> >> }

\* orders in which ranging over the url.Values map may yield its keys
KeyOrders ==
    { <<kFile, kPath, kBranch, kRepo, kArch>>,
      <<kArch, kRepo, kBranch, kPath, kFile>>,
      <<kRepo, kArch, kFile, kBranch, kPath>> }

\* input strings of the getFileAndPath specification
Alphabet == {"/", ".", "*", "a"}
SplitInputs == SeqsUpTo(Alphabet, MaxLen) \cup {libFoo, libssl}

\* documents of the getFilesInfo specification: every sequence of at most
\* MaxRows rows, cut into row groups in every way
RowSet == {Row(t, k) : t \in {"x", "y"}, k \in 0..MaxCells}

RECURSIVE Groupings(_)
Groupings(rs) ==
    IF rs = <<>> THEN {<<>>}
    ELSE UNION { { <<SubSeq(rs, 1, i)>> \o g :
                     g \in Groupings(SubSeq(rs, i + 1, Len(rs))) } :
                 i \in 1..Len(rs) }

ExtractDocs(maxRows) == UNION {Groupings(rs) : rs \in SeqsUpTo(RowSet, maxRows)}

----------------------------------------------------------------------------
(* The run: p.Run parses the flags, calls p.Before and, when that returns  *)
(* nil, p.Action; an error from either is printed and the process exits    *)
(* with status 1.                                                          *)

\* flag defaults of main, nothing computed yet
InitRun ==
    /\ wildcard = <<>>
    /\ filterType = ""
    /\ branch = v38
    /\ repo = main
    /\ arch = x8664
    /\ outputFormat = "yaml"
    /\ stdin = FALSE
    /\ args = <<>>
    /\ input = <<>>
    /\ f = <<>>
    /\ p = <<>>
    /\ uri = ""
    /\ fetched = FALSE
    /\ doc = <<>>
    /\ files = <<>>
    /\ warnings = <<>>
    /\ result = NilResult
    /\ err = Nil
    /\ fmtErr = Nil
    /\ out = <<>>
    /\ exit = "running"

Init == pc = "start" /\ InitRun

\* p.FlagSet parsing the command line
ParseFlags ==
    /\ pc = "start"
    /\ wildcard' \in WildcardFlags
    /\ filterType' \in FilterFlags
    /\ branch' \in BranchFlags
    /\ arch' \in ArchFlags
    /\ repo' \in RepoFlags
    /\ outputFormat' \in FormatFlags
    /\ stdin' \in BOOLEAN
    /\ args' \in ArgLists
    /\ pc' = "before"
    /\ UNCHANGED <<input, f, p, uri, fetched, doc, files, warnings, result,
                   err, fmtErr, out, exit>>

\* p.Run after p.Before returned e: an error is printed and the process
\* exits with status 1 without p.Action being called; nil lets p.Action run
runBefore(e) ==
    IF e # Nil THEN [pc |-> "done", exit |-> "error"]
    ELSE [pc |-> "action", exit |-> "running"]

\* p.Run after p.Action returned e: status 1 on an error, 0 otherwise
runAction(e) == IF e # Nil THEN "error" ELSE "ok"

\* p.Before
BeforeStep ==
    /\ pc = "before"
    /\ LET e == Before(wildcard, filterType, branch, arch, repo)
       IN  /\ err' = e
           /\ pc' = runBefore(e).pc
           /\ exit' = runBefore(e).exit
    /\ UNCHANGED <<wildcard, filterType, branch, arch, repo, outputFormat,
                   stdin, args, input, f, p, uri, fetched, doc, files,
                   warnings, result, fmtErr, out>>

\* the request URI of p.Action
requestURI(file, dir, b, r, a, iter) ==
    alpineContentsSearchURI \o "?" \o Str(Encode(Values(file, dir, b, r, a), iter))

\* the text of the error os.Stdin.Stat returns when it fails
statError == "stat /dev/stdin: bad file descriptor"

\* checkStdin: (true, nil) when standard input is a named pipe, (false, nil)
\* when it is not, (false, err) when os.Stdin.Stat fails
checkStdinResults ==
    { [ok |-> TRUE,  err |-> Nil],
      [ok |-> FALSE, err |-> Nil],
      [ok |-> FALSE, err |-> statError] }

\* fmt.Errorf("stdin is invalid, msg: %s", err): %s of a nil error prints
\* as %!s(<nil>)
stdinInvalid(e) ==
    "stdin is invalid, msg: " \o (IF e = Nil THEN "%!s(<nil>)" ELSE e)

\* p.Action up to the request: read the input, split it, build the URI
ActionInput ==
    /\ pc = "action"
    /\ \E chk \in checkStdinResults, text \in StdinTexts, iter \in KeyOrders :
         LET failed == IF stdin THEN ~chk.ok ELSE Len(args) < 1
             raw    == IF stdin THEN TrimSuffix(text, <<"\n">>) ELSE args[1]
             in     == raw \o wildcard
             fp     == getFileAndPath(in)
         IN  IF failed
             THEN /\ err' = (IF stdin THEN stdinInvalid(chk.err)
                             ELSE "must pass a file to search for")
                  /\ pc' = "done"
                  /\ exit' = "error"
                  /\ UNCHANGED <<input, f, p, uri>>
             ELSE /\ input' = in
                  /\ f' = fp.file
                  /\ p' = fp.dir
                  /\ uri' = requestURI(fp.file, fp.dir, branch, repo, arch, iter)
                  /\ pc' = "fetch"
                  /\ UNCHANGED <<err, exit>>
    /\ UNCHANGED <<wildcard, filterType, branch, arch, repo, outputFormat,
                   stdin, args, fetched, doc, files, warnings, result,
                   fmtErr, out>>

\* http.Get and goquery.NewDocumentFromReader: a failure of either is fatal
ActionFetch ==
    /\ pc = "fetch"
    /\ fetched' = TRUE
    /\ \/ /\ pc' = "done"
          /\ exit' = "fatal"
          /\ doc' = doc
       \/ /\ doc' \in SampleDocs
          /\ pc' = "export"
          /\ exit' = exit
    /\ UNCHANGED <<wildcard, filterType, branch, arch, repo, outputFormat,
                   stdin, args, input, f, p, uri, files, warnings, result,
                   err, fmtErr, out>>

\* the rest of p.Action: getFilesInfo, the dataset, tabularResults
ActionExport ==
    /\ pc = "export"
    /\ \E serr \in BOOLEAN, ferr \in BOOLEAN :
         /\ serr => outputFormat \in fallible
         /\ LET fs == getFilesInfo(doc)
                t  == tabularResults(outputFormat, newDataset(fs), serr, ferr)
            IN  /\ files' = fs
                /\ warnings' = getFilesWarnings(doc)
                /\ result' = t.result
                /\ err' = t.err
                /\ fmtErr' = t.fmtErr
                /\ out' = t.out
                /\ exit' = runAction(t.err)
    /\ pc' = "done"
    /\ UNCHANGED <<wildcard, filterType, branch, arch, repo, outputFormat,
                   stdin, args, input, f, p, uri, fetched, doc>>

Next == ParseFlags \/ BeforeStep \/ ActionInput \/ ActionFetch \/ ActionExport

Spec == Init /\ [][Next]_vars

----------------------------------------------------------------------------
(* getFileAndPath alone, on every input string of the bound.               *)

InitSplit ==
    /\ pc = "split"
    /\ input \in SplitInputs
    /\ wildcard = <<>> /\ filterType = "" /\ branch = v38 /\ repo = main
    /\ arch = x8664 /\ outputFormat = "yaml" /\ stdin = FALSE /\ args = <<>>
    /\ f = <<>> /\ p = <<>> /\ uri = "" /\ fetched = FALSE /\ doc = <<>>
    /\ files = <<>> /\ warnings = <<>> /\ result = NilResult /\ err = Nil
    /\ fmtErr = Nil /\ out = <<>> /\ exit = "running"

Split ==
    /\ pc = "split"
    /\ LET fp == getFileAndPath(input)
       IN  f' = fp.file /\ p' = fp.dir
    /\ pc' = "splitdone"
    /\ UNCHANGED <<wildcard, filterType, branch, arch, repo, outputFormat,
                   stdin, args, input, uri, fetched, doc, files, warnings,
                   result, err, fmtErr, out, exit>>

SpecSplit == InitSplit /\ [][Split]_vars

----------------------------------------------------------------------------
(* getFilesInfo alone, on every document of the bound.                     *)

InitExtract ==
    /\ pc = "extract"
    /\ doc \in ExtractDocs(MaxRows)
    /\ wildcard = <<>> /\ filterType = "" /\ branch = v38 /\ repo = main
    /\ arch = x8664 /\ outputFormat = "yaml" /\ stdin = FALSE /\ args = <<>>
    /\ input = <<>> /\ f = <<>> /\ p = <<>> /\ uri = "" /\ fetched = FALSE
    /\ files = <<>> /\ warnings = <<>> /\ result = NilResult /\ err = Nil
    /\ fmtErr = Nil /\ out = <<>> /\ exit = "running"

Extract ==
    /\ pc = "extract"
    /\ files' = getFilesInfo(doc)
    /\ warnings' = getFilesWarnings(doc)
    /\ pc' = "extracted"
    /\ UNCHANGED <<wildcard, filterType, branch, arch, repo, outputFormat,
                   stdin, args, input, f, p, uri, fetched, doc, result, err,
                   fmtErr, out, exit>>

SpecExtract == InitExtract /\ [][Extract]_vars

----------------------------------------------------------------------------
(* Properties of getFileAndPath (checked under SpecSplit).                 *)

HasSlash(s) == "/" \in Range(s)

\* C1: for every non-empty input without a "/", getFileAndPath returns the
\* empty directory pattern and the file pattern "*" + basename + "*", the
\* basename of such an input being the input itself.
C1_NoSeparator ==
    (pc = "splitdone" /\ input # <<>> /\ ~HasSlash(input)) =>
        /\ p = <<>>
        /\ f = <<"*">> \o Base(input) \o <<"*">>
        /\ f = <<"*">> \o input \o <<"*">>

C1_Witness ==
    /\ pc = "splitdone"
    /\ input = libssl
    /\ Str(f) = "*libssl.so*"
    /\ p = <<>>

\* C2: for every input whose directory component is neither empty nor ".",
\* the directory pattern is "*" + directory and the file pattern is
\* basename + "*", without a leading wildcard; "lib/foo" gives "*lib" and
\* "foo*".
C2_WithDirectory ==
    /\ (pc = "splitdone" /\ Dir(input) # <<>> /\ Dir(input) # <<".">>) =>
           /\ p = <<"*">> \o Dir(input)
           /\ f = Base(input) \o <<"*">>
    /\ (pc = "splitdone" /\ input = libFoo) =>
           /\ Str(p) = "*lib"
           /\ Str(f) = "foo*"

C2_Witness ==
    /\ pc = "splitdone"
    /\ input = libFoo
    /\ Str(p) = "*lib"
    /\ Str(f) = "foo*"

\* C3 as stated: the empty input gives file pattern "**" and the empty
\* directory pattern.
C3_EmptyInputOriginal ==
    (pc = "splitdone" /\ input = <<>>) => (Str(f) = "**" /\ p = <<>>)

\* C3 as amended: the empty input gives file pattern "*.*" (path.Base of
\* the empty string is ".") and the empty directory pattern.
C3_EmptyInput ==
    (pc = "splitdone" /\ input = <<>>) => (Str(f) = "*.*" /\ p = <<>>)

C3_Witness ==
    /\ pc = "splitdone"
    /\ input = <<>>
    /\ f = <<"*", ".", "*">>

----------------------------------------------------------------------------
(* Properties of the run (checked under Spec).                             *)

badWildcard == wildcard # <<>> /\ wildcard \notin Range(validWildcards)
badFilter   == filterType # "" /\ filterType \notin Range(validFilterTypes)
badBranch   == branch # <<>> /\ branch \notin Range(validBranches)
badArch     == arch # <<>> /\ arch \notin Range(validArches)
badRepo     == repo # <<>> /\ repo \notin Range(validRepos)

\* the validation error naming a value and listing what is allowed
versionMessage == Str(branch) \o " is not a valid version, allowed: edge, v3.8, v3.7, v3.6, v3.5, v3.4, v3.3"
archMessage    == Str(arch) \o " is not a valid arch, allowed: x86, x86_64, armhf, aarch64, ppc64le, s390x"
repoMessage    == Str(repo) \o " is not a valid repo, allowed: main, community, testing"
wildcardMessage == Str(wildcard) \o " is not a valid pattern type allowed: *, ?"
filterMessage   == filterType \o " is not a valid pattern type allowed: file, path, package"

\* the errors that name an offending branch, arch or repo value
EnumOffenceMessages ==
    (IF badBranch THEN {versionMessage} ELSE {})
    \cup (IF badArch THEN {archMessage} ELSE {})
    \cup (IF badRepo THEN {repoMessage} ELSE {})

\* the error for the first offending flag in the order wildcard, filter,
\* branch, arch, repo
FirstOffenceMessage ==
    IF badWildcard THEN wildcardMessage
    ELSE IF badFilter THEN filterMessage
    ELSE IF badBranch THEN versionMessage
    ELSE IF badArch THEN archMessage
    ELSE repoMessage

\* C4 as stated: in a run whose branch, repo or arch is non-empty and
\* outside its enumeration, the run fails with a validation error that
\* names the offending branch, repo or arch value and lists the values
\* allowed for it, and http.Get is never called.
C4_ValidationOriginal ==
    (badBranch \/ badRepo \/ badArch) =>
        /\ ~fetched
        /\ pc \in {"before", "done"}
        /\ pc = "done" => (exit = "error" /\ err \in EnumOffenceMessages)

\* C4 as amended: in such a run the run never gets past p.Before and
\* http.Get is never called; the validation error names the first
\* offending flag value in the order wildcard, filter, branch, arch, repo
\* (an invalid -wildcard or -filter value when there is one, else the
\* offending branch, arch or repo value) and lists the values allowed for
\* that flag.
C4_ValidationBeforeFetch ==
    (badBranch \/ badRepo \/ badArch) =>
        /\ ~fetched
        /\ pc \in {"before", "done"}
        /\ pc = "done" => (exit = "error" /\ err = FirstOffenceMessage)
        /\ (pc = "done" /\ ~badWildcard /\ ~badFilter) =>
               err \in EnumOffenceMessages

C4_Witness ==
    /\ pc = "done"
    /\ ~badWildcard
    /\ ~badFilter
    /\ Str(branch) = "v9.9"
    /\ exit = "error"
    /\ ~fetched
    /\ err = "v9.9 is not a valid version, allowed: edge, v3.8, v3.7, v3.6, v3.5, v3.4, v3.3"

\* "key=value" with the value percent-encoded
pair(k, v) == k \o "=" \o Str(QueryEscape(v))

\* C5 as stated: the query string lists its keys in the order file, path,
\* branch, repo, arch.
C5_KeyOrderOriginal ==
    pc \in {"fetch", "export"} =>
        uri = alpineContentsSearchURI \o "?"
              \o pair("file", f) \o "&" \o pair("path", p) \o "&"
              \o pair("branch", branch) \o "&" \o pair("repo", repo) \o "&"
              \o pair("arch", arch)

\* C5 as amended: the query string lists its keys in sorted order, arch,
\* branch, file, path, repo, whatever order the map yielded them in, so the
\* same inputs always give the same string.
C5_KeyOrderSorted ==
    pc \in {"fetch", "export"} =>
        uri = alpineContentsSearchURI \o "?"
              \o pair("arch", arch) \o "&" \o pair("branch", branch) \o "&"
              \o pair("file", f) \o "&" \o pair("path", p) \o "&"
              \o pair("repo", repo)

C5_Witness ==
    /\ pc = "fetch"
    /\ input = libFoo
    /\ uri = "https://pkgs.alpinelinux.org/contents?arch=x86_64&branch=v3.8&file=foo%2A&path=%2Alib&repo=main"

----------------------------------------------------------------------------
(* Properties of getFilesInfo (checked under SpecExtract).                 *)

\* every row of the table, in document order
RECURSIVE tableRows(_)
tableRows(d) == IF d = <<>> THEN <<>> ELSE Head(d) \o tableRows(Tail(d))

\* the rows after the header row
dataRows(d) == Tail(tableRows(d))

\* cell i of a row, the empty string when the row has no such cell
cell(row, i) == IF i <= Len(row) THEN row[i] ELSE ""

\* the record the positional mapping gives a row
recordOf(row) ==
    [path |-> cell(row, 1), pkg |-> cell(row, 2), branch |-> cell(row, 3),
     repo |-> cell(row, 4), arch |-> cell(row, 5)]

\* C6: for a table of one header row followed by N >= 0 data rows of 5
\* cells each, getFilesInfo returns exactly N records, the i-th holding the
\* cells of the i-th data row, in document order, nothing merged or moved.
C6_RowsInOrder ==
    (/\ pc = "extracted"
     /\ tableRows(doc) # <<>>
     /\ \A i \in 1..Len(dataRows(doc)) : Len(dataRows(doc)[i]) = 5) =>
        /\ Len(files) = Len(dataRows(doc))
        /\ \A i \in 1..Len(dataRows(doc)) :
               /\ i <= Len(files)
               /\ files[i] = recordOf(dataRows(doc)[i])

\* C7: every row after the header row yields one record, whatever its
\* number k of cells: fields 1..k from the cells and the rest empty when
\* k < 5, the first five cells when k > 5; no row is dropped.
C7_TolerantRows ==
    (pc = "extracted" /\ tableRows(doc) # <<>>) =>
        /\ Len(files) = Len(dataRows(doc))
        /\ \A i \in 1..Len(dataRows(doc)) :
               /\ i <= Len(files)
               /\ files[i] = recordOf(dataRows(doc)[i])

----------------------------------------------------------------------------
(* Properties of tabularResults (checked under Spec).                      *)

exported == pc = "done" /\ fetched /\ exit \in {"ok", "error"}

\* C8: an output format outside the list of valid formats makes the run
\* fail, and nothing is rendered to standard output.
C8_UnknownFormatFails ==
    (pc = "done" /\ outputFormat \notin Range(validOutputFormats)) =>
        /\ exit # "ok"
        /\ Len(out) = 0

\* C9: for the formats ascii, html and markdown, tabularResults returns the
\* grid rendering of the records, never nil and never another format's
\* rendering.
C9_GridFormats ==
    (/\ exported
     /\ outputFormat \in {"ascii", "html", "markdown"}
     /\ fmtErr = Nil
     /\ err = Nil) =>
        /\ result # NilResult
        /\ result = exportable("grid", newDataset(files))

\* C10: when the renderer of the selected format reports an error,
\* tabularResults returns that error and the run fails.
C10_FormatErrorReturned ==
    (exported /\ fmtErr # Nil) => (err = fmtErr /\ exit = "error")

====
